---- MODULE Spec2Model ----
(***************************************************************************)
(* Guardian: a control loop that gates privileged local commands behind    *)
(* possession of a USB key.  The model covers                              *)
(*   observer/src/bin/guardian.rs      main (the control loop)             *)
(*   observer/src/connector/usb_key.rs UsbKey                              *)
(*   observer/src/connector/security.rs SecurityManager                    *)
(*   observer/src/handler.rs           CommandHandler                      *)
(* Device, DeviceManager and the spawned external processes are the        *)
(* environment: every outcome their contracts allow is a nondeterministic  *)
(* choice of the action that calls them.                                   *)
(***************************************************************************)
EXTENDS Integers, Sequences, FiniteSets, TLC

(***************************************************************************)
(* Results.  anyhow::Result<T>: Ok(v) or Err(e); an error is a record      *)
(* whose kind names the anyhow! message or the device / io failure.        *)
(***************************************************************************)
Ok(v) == [ok |-> TRUE, val |-> v]
Err(e) == [ok |-> FALSE, err |-> e]
Unit == "()"

(***************************************************************************)
(* SHA-256 (sha2::Sha256 as used by SecurityManager::hash_data).           *)
(* A 32-bit word is a pair <<hi, lo>> of 16-bit halves, so that every      *)
(* intermediate value stays inside the checker's integer range while the   *)
(* arithmetic stays modulo 2^32.                                           *)
(***************************************************************************)
W16 == 2^16

RECURSIVE BitXor16(_, _, _)
BitXor16(a, b, n) ==
    IF n = 0 THEN 0
    ELSE (((a % 2) + (b % 2)) % 2) + 2 * BitXor16(a \div 2, b \div 2, n - 1)

RECURSIVE BitAnd16(_, _, _)
BitAnd16(a, b, n) ==
    IF n = 0 THEN 0
    ELSE ((a % 2) * (b % 2)) + 2 * BitAnd16(a \div 2, b \div 2, n - 1)

WXor(x, y) == <<BitXor16(x[1], y[1], 16), BitXor16(x[2], y[2], 16)>>
WAnd(x, y) == <<BitAnd16(x[1], y[1], 16), BitAnd16(x[2], y[2], 16)>>
WNot(x) == <<(W16 - 1) - x[1], (W16 - 1) - x[2]>>

WAdd(x, y) ==
    LET lo == x[2] + y[2]
        hi == x[1] + y[1] + (lo \div W16)
    IN  <<hi % W16, lo % W16>>

RECURSIVE Rotr(_, _)
Rotr(x, n) ==
    IF n >= 16 THEN Rotr(<<x[2], x[1]>>, n - 16)
    ELSE IF n = 0 THEN x
    ELSE <<(x[1] \div (2^n)) + ((x[2] % (2^n)) * (2^(16 - n))),
           (x[2] \div (2^n)) + ((x[1] % (2^n)) * (2^(16 - n)))>>

Shr(x, n) ==
    <<x[1] \div (2^n), (x[2] \div (2^n)) + ((x[1] % (2^n)) * (2^(16 - n)))>>

Ch(x, y, z) == WXor(WAnd(x, y), WAnd(WNot(x), z))
Maj(x, y, z) == WXor(WXor(WAnd(x, y), WAnd(x, z)), WAnd(y, z))
BigSigma0(x) == WXor(WXor(Rotr(x, 2), Rotr(x, 13)), Rotr(x, 22))
BigSigma1(x) == WXor(WXor(Rotr(x, 6), Rotr(x, 11)), Rotr(x, 25))
SmallSigma0(x) == WXor(WXor(Rotr(x, 7), Rotr(x, 18)), Shr(x, 3))
SmallSigma1(x) == WXor(WXor(Rotr(x, 17), Rotr(x, 19)), Shr(x, 10))

Sha256K == <<
    <<17034, 12184>>, <<28983, 17553>>, <<46528, 64463>>, <<59829, 56229>>,
    <<14678, 49755>>, <<23025, 4593>>, <<37439, 33444>>, <<43804, 24277>>,
    <<55303, 43672>>, <<4739, 23297>>, <<9265, 34238>>, <<21772, 32195>>,
    <<29374, 23924>>, <<32990, 45566>>, <<39900, 1703>>, <<49563, 61812>>,
    <<58523, 27073>>, <<61374, 18310>>, <<4033, 40390>>, <<9228, 41420>>,
    <<11753, 11375>>, <<19060, 33962>>, <<23728, 43484>>, <<30457, 35034>>,
    <<38974, 20818>>, <<43057, 50797>>, <<45059, 10184>>, <<48985, 32711>>,
    <<50912, 3059>>, <<54695, 37191>>, <<1738, 25425>>, <<5161, 10599>>,
    <<10167, 2693>>, <<11803, 8504>>, <<19756, 28156>>, <<21304, 3347>>,
    <<25866, 29524>>, <<30314, 2747>>, <<33218, 51502>>, <<37490, 11397>>,
    <<41663, 59553>>, <<43034, 26187>>, <<49739, 35696>>, <<51052, 20899>>,
    <<53650, 59417>>, <<54937, 1572>>, <<62478, 13701>>, <<4202, 41072>>,
    <<6564, 49430>>, <<7735, 27656>>, <<10056, 30540>>, <<13488, 48309>>,
    <<14620, 3251>>, <<20184, 43594>>, <<23452, 51791>>, <<26670, 28659>>,
    <<29839, 33518>>, <<30885, 25455>>, <<33992, 30740>>, <<36039, 520>>,
    <<37054, 65530>>, <<42064, 27883>>, <<48889, 41975>>, <<50801, 30962>> >>

Sha256H0 == <<
    <<27145, 58983>>, <<47975, 44677>>, <<15470, 62322>>, <<42319, 62778>>,
    <<20750, 21119>>, <<39685, 26764>>, <<8067, 55723>>, <<23520, 52505>> >>

\* n zero bytes (built by halving, to keep the recursion shallow)
RECURSIVE Zeros(_)
Zeros(n) ==
    IF n = 0 THEN << >>
    ELSE LET half == Zeros(n \div 2)
         IN  half \o half \o (IF n % 2 = 1 THEN <<0>> ELSE << >>)

\* Message padding: 0x80, zero fill, 64-bit big-endian bit length.
Sha256Pad(data) ==
    LET L == Len(data)
        bits == 8 * L
    IN  data \o <<128>> \o Zeros((64 - ((L + 9) % 64)) % 64) \o <<0, 0, 0, 0>>
        \o <<(bits \div 16777216) % 256, (bits \div 65536) % 256,
             (bits \div 256) % 256, bits % 256>>

\* The 16 big-endian words of the 64-byte block starting after byte `off'.
RECURSIVE BlockWords(_, _, _)
BlockWords(bytes, off, n) ==
    IF n = 16 THEN << >>
    ELSE << <<(bytes[off + 4*n + 1] * 256) + bytes[off + 4*n + 2],
              (bytes[off + 4*n + 3] * 256) + bytes[off + 4*n + 4]>> >>
         \o BlockWords(bytes, off, n + 1)

RECURSIVE Sha256Schedule(_)
Sha256Schedule(w) ==
    IF Len(w) = 64 THEN w
    ELSE LET n == Len(w)
             next == WAdd(WAdd(SmallSigma1(w[n - 1]), w[n - 6]),
                          WAdd(SmallSigma0(w[n - 14]), w[n - 15]))
         IN  Sha256Schedule(Append(w, next))

Sha256Round(s, k, w) ==
    LET t1 == WAdd(WAdd(WAdd(s[8], BigSigma1(s[5])), Ch(s[5], s[6], s[7])),
                   WAdd(k, w))
        t2 == WAdd(BigSigma0(s[1]), Maj(s[1], s[2], s[3]))
    IN  <<WAdd(t1, t2), s[1], s[2], s[3], WAdd(s[4], t1), s[5], s[6], s[7]>>

\* The 64 rounds; acc holds the working state before each round done so far.
RECURSIVE Sha256Rounds(_, _)
Sha256Rounds(acc, w) ==
    LET t == Len(acc)
    IN  IF t = 65 THEN acc[65]
        ELSE Sha256Rounds(Append(acc, Sha256Round(acc[t], Sha256K[t], w[t])), w)

Sha256Compress(h, block) ==
    LET s == Sha256Rounds(<<h>>, Sha256Schedule(block))
    IN  <<WAdd(h[1], s[1]), WAdd(h[2], s[2]), WAdd(h[3], s[3]),
          WAdd(h[4], s[4]), WAdd(h[5], s[5]), WAdd(h[6], s[6]),
          WAdd(h[7], s[7]), WAdd(h[8], s[8])>>

RECURSIVE Sha256Blocks(_, _, _)
Sha256Blocks(h, bytes, off) ==
    IF off >= Len(bytes) THEN h
    ELSE Sha256Blocks(Sha256Compress(h, BlockWords(bytes, off, 0)),
                      bytes, off + 64)

RECURSIVE WordsToBytes(_)
WordsToBytes(ws) ==
    IF ws = << >> THEN << >>
    ELSE <<Head(ws)[1] \div 256, Head(ws)[1] % 256,
           Head(ws)[2] \div 256, Head(ws)[2] % 256>> \o WordsToBytes(Tail(ws))

\* Sha256::new(); hasher.update(data); hasher.finalize()  -- 32 digest bytes
Sha256(data) == WordsToBytes(Sha256Blocks(Sha256H0, Sha256Pad(data), 0))

\* format!("{:x}", digest): two lowercase hexadecimal digits per byte.
LowerHexDigit(n) ==
    <<"0", "1", "2", "3", "4", "5", "6", "7",
      "8", "9", "a", "b", "c", "d", "e", "f">>[n + 1]

RECURSIVE FormatLowerHex(_)
FormatLowerHex(bytes) ==
    IF bytes = << >> THEN << >>
    ELSE <<LowerHexDigit(Head(bytes) \div 16), LowerHexDigit(Head(bytes) % 16)>>
         \o FormatLowerHex(Tail(bytes))

(***************************************************************************)
(* Strings that are compared character by character are sequences of       *)
(* one-character strings.                                                  *)
(***************************************************************************)
\* const EXPECTED_KEY_HASH: &str = "your_expected_key_hash_here";
EXPECTED_KEY_HASH == <<
    "y", "o", "u", "r", "_", "e", "x", "p", "e", "c", "t", "e", "d", "_", "k", "e",
    "y", "_", "h", "a", "s", "h", "_", "h", "e", "r", "e" >>

\* b"test_key_data" (the key data of the tests)
TestKeyData == <<116, 101, 115, 116, 95, 107, 101, 121, 95, 100, 97, 116, 97>>

\* Reference digests (lowercase hexadecimal) of TestKeyData and of the empty
\* byte sequence, as published test vectors; and one of them in upper case.
TestKeyHash == <<
    "f", "1", "4", "8", "8", "0", "a", "c", "3", "b", "2", "5", "4", "6", "c", "8",
    "b", "5", "f", "f", "f", "7", "6", "8", "a", "0", "4", "4", "4", "d", "d", "3",
    "0", "a", "4", "0", "f", "8", "b", "f", "6", "6", "7", "9", "e", "3", "6", "6",
    "c", "b", "0", "8", "6", "7", "b", "3", "e", "d", "e", "5", "6", "5", "1", "9" >>

EmptyDataHash == <<
    "e", "3", "b", "0", "c", "4", "4", "2", "9", "8", "f", "c", "1", "c", "1", "4",
    "9", "a", "f", "b", "f", "4", "c", "8", "9", "9", "6", "f", "b", "9", "2", "4",
    "2", "7", "a", "e", "4", "1", "e", "4", "6", "4", "9", "b", "9", "3", "4", "c",
    "a", "4", "9", "5", "9", "9", "1", "b", "7", "8", "5", "2", "b", "8", "5", "5" >>

TestKeyHashUpper == <<
    "F", "1", "4", "8", "8", "0", "A", "C", "3", "B", "2", "5", "4", "6", "C", "8",
    "B", "5", "F", "F", "F", "7", "6", "8", "A", "0", "4", "4", "4", "D", "D", "3",
    "0", "A", "4", "0", "F", "8", "B", "F", "6", "6", "7", "9", "E", "3", "6", "6",
    "C", "B", "0", "8", "6", "7", "B", "3", "E", "D", "E", "5", "6", "5", "1", "9" >>


(***************************************************************************)
(* Environment domains.                                                    *)
(***************************************************************************)
\* Byte sequences a channel's read(size) may return.
KeyData == { << >>, TestKeyData, <<97, 98>> }

\* const 1024 of usb_key.read_data(1024) in verify_key
READ_SIZE == 1024

\* const COMMAND_TIMEOUT: Duration = Duration::from_secs(30);
COMMAND_TIMEOUT == 30

\* Key data one byte longer than verify_key asks for, as a channel returns
\* it that does not look at the size (MockDevice::read), and its digest.
LongKeyData == Zeros(READ_SIZE + 1)

LongKeyHash == <<
    "c", "5", "5", "b", "9", "0", "5", "0", "9", "b", "8", "c", "b", "9", "b", "a",
    "c", "5", "3", "f", "b", "d", "d", "d", "f", "c", "9", "3", "d", "4", "e", "5",
    "7", "2", "6", "8", "5", "c", "5", "0", "9", "f", "1", "2", "1", "8", "4", "2",
    "3", "c", "4", "3", "a", "5", "d", "6", "0", "1", "3", "b", "b", "d", "4", "8" >>

\* Expected digests a SecurityManager may be constructed with.
ExpectedHashes == { EXPECTED_KEY_HASH, TestKeyHash, TestKeyHashUpper, EmptyDataHash }

\* Key ids a UsbKey may be constructed with, and ids / types a descriptor
\* (DeviceInfo) may carry.
KeyIds == { "test_key_id", "placeholder_key_id" }
DescriptorIds == { "test_key_id", "placeholder_id", "wrong_id" }
DeviceTypes == { "USB", "Disk", "Other" }

DeviceInfos == [id : DescriptorIds, device_type : DeviceTypes]

\* What wait_for_device may hand over: a UsbKey wrapping some channel, or a
\* Device of another concrete type (the downcast to UsbKey then fails).
Devices ==
    [is_usb_key : {TRUE}, key_id : KeyIds, info : DeviceInfos]
    \cup [is_usb_key : {FALSE}, key_id : {""}, info : DeviceInfos]

NoDevice == [is_usb_key |-> FALSE, key_id |-> "", info |-> [id |-> "", device_type |-> ""]]

\* Failures of the Device / DeviceManager operations.
Timeout == [msg |-> "Timeout", args |-> << >>]
IoError == [msg |-> "IoError", args |-> << >>]

\* Command strings a channel may deliver.
Commands ==
    { "ALLOW_NETWORK", "BLOCK_NETWORK", "LOCK_SCREEN", "LOCK_USB", "UNLOCK_USB",
      "CHECK_STATUS", "DELETE_ALL", "lock_screen", "PLACEHOLDER_COMMAND" }

\* Captured output of a spawned process: "locked", "perm denied", a byte
\* that is no valid UTF-8, nothing.
OutLocked == <<108, 111, 99, 107, 101, 100>>
ErrPermDenied == <<112, 101, 114, 109, 32, 100, 101, 110, 105, 101, 100>>
Stdouts == { << >>, OutLocked, <<255>> }
Stderrs == { << >>, ErrPermDenied, <<195, 169, 255>> }
ExitCodes == { 0, 1 }
Outputs == [status : ExitCodes, stdout : Stdouts, stderr : Stderrs]

TargetOses == { "unix", "windows" }

(***************************************************************************)
(* SecurityManager  (connector/security.rs)                                *)
(***************************************************************************)
\* The digests of the data a channel may return, computed once.
HashedData == KeyData \cup {LongKeyData}

Sha256Memo == { <<d, Sha256(d)>> : d \in HashedData }

Digest(data) ==
    IF data \in HashedData
    THEN (CHOOSE p \in Sha256Memo : p[1] = data)[2]
    ELSE Sha256(data)

hash_data(data) == FormatLowerHex(Digest(data))

\* Variant: a failed read is taken as empty key data (unwrap_or_default).
verify_key_DefaultOnError(expected_key_hash, readRes) ==
    IF ~readRes.ok THEN Ok(hash_data(<< >>) = expected_key_hash)
    ELSE Ok(hash_data(readRes.val) = expected_key_hash)

\* let key_data = usb_key.read_data(1024).await?  -- the bytes that are hashed
key_data(readRes) == readRes.val

\* readRes is the outcome of usb_key.read_data(1024).await
verify_key(expected_key_hash, readRes) ==
    IF ~readRes.ok THEN readRes
    ELSE Ok(hash_data(key_data(readRes)) = expected_key_hash)

authenticate_key(expected_key_hash, readRes) ==
    LET verified == verify_key(expected_key_hash, readRes)
    IN  IF ~verified.ok THEN verified
        ELSE IF verified.val THEN Ok(Unit)
        ELSE Err([msg |-> "Key authentication failed", args |-> << >>])

(***************************************************************************)
(* UsbKey  (connector/usb_key.rs)                                          *)
(***************************************************************************)
\* Variant: the id is compared before the type.
initialize_IdBeforeType(key_id, connectRes, infoRes) ==
    IF ~connectRes.ok THEN connectRes
    ELSE IF ~infoRes.ok THEN infoRes
    ELSE IF infoRes.val.id # key_id
         THEN Err([msg |-> "Unexpected USB key", args |-> << >>])
    ELSE IF infoRes.val.device_type # "USB"
         THEN Err([msg |-> "Not a USB device", args |-> << >>])
    ELSE Ok(Unit)

\* Variant: the descriptor id is not compared with the key id.
initialize_NoIdCheck(key_id, connectRes, infoRes) ==
    IF ~connectRes.ok THEN connectRes
    ELSE IF ~infoRes.ok THEN infoRes
    ELSE IF infoRes.val.device_type # "USB"
         THEN Err([msg |-> "Not a USB device", args |-> << >>])
    ELSE Ok(Unit)

\* connectRes, infoRes: the outcomes of device.connect() and device.get_info()
initialize(key_id, connectRes, infoRes) ==
    IF ~connectRes.ok THEN connectRes
    ELSE IF ~infoRes.ok THEN infoRes
    ELSE IF infoRes.val.device_type # "USB"
         THEN Err([msg |-> "Not a USB device", args |-> << >>])
    ELSE IF infoRes.val.id # key_id
         THEN Err([msg |-> "Unexpected USB key", args |-> << >>])
    ELSE Ok(Unit)

(***************************************************************************)
(* CommandHandler  (handler.rs)                                            *)
(***************************************************************************)
\* String::from_utf8_lossy: bytes to code points.  ASCII and two-byte
\* sequences decode; any other byte becomes U+FFFD.  (The outputs of the
\* model hold no lead byte of a three- or four-byte sequence.)
RECURSIVE from_utf8_lossy(_)
from_utf8_lossy(bytes) ==
    IF bytes = << >> THEN << >>
    ELSE LET b == Head(bytes)
         IN  IF b < 128 THEN <<b>> \o from_utf8_lossy(Tail(bytes))
             ELSE IF /\ b \in 194..223
                     /\ Len(bytes) >= 2
                     /\ bytes[2] \in 128..191
                  THEN <<((b - 192) * 64) + (bytes[2] - 128)>>
                       \o from_utf8_lossy(SubSeq(bytes, 3, Len(bytes)))
             ELSE <<65533>> \o from_utf8_lossy(Tail(bytes))

\* Path::new(RESPONSE_DIR).join(OS_SPECIFIC_DIR).to_string_lossy()
script_directory(target_os) ==
    IF target_os = "windows" THEN "./response\\win" ELSE "./response/nix"

\* Variant: the codes of LOCK_USB and UNLOCK_USB are exchanged.
handle_command_SwappedUsb(command) ==
    CASE command = "ALLOW_NETWORK" -> [arm |-> "run_script", script_name |-> "an"]
      [] command = "BLOCK_NETWORK" -> [arm |-> "run_script", script_name |-> "bn"]
      [] command = "LOCK_SCREEN"   -> [arm |-> "run_script", script_name |-> "sl"]
      [] command = "LOCK_USB"      -> [arm |-> "run_script", script_name |-> "uu"]
      [] command = "UNLOCK_USB"    -> [arm |-> "run_script", script_name |-> "lu"]
      [] command = "CHECK_STATUS"  -> [arm |-> "check_status", script_name |-> ""]
      [] OTHER                     -> [arm |-> "unknown", script_name |-> ""]

\* Variant: the command strings are matched without regard to case.
handle_command_IgnoreCase(command) ==
    CASE command = "ALLOW_NETWORK" -> [arm |-> "run_script", script_name |-> "an"]
      [] command = "BLOCK_NETWORK" -> [arm |-> "run_script", script_name |-> "bn"]
      [] command \in {"LOCK_SCREEN", "lock_screen"}
                                   -> [arm |-> "run_script", script_name |-> "sl"]
      [] command = "LOCK_USB"      -> [arm |-> "run_script", script_name |-> "lu"]
      [] command = "UNLOCK_USB"    -> [arm |-> "run_script", script_name |-> "uu"]
      [] command = "CHECK_STATUS"  -> [arm |-> "check_status", script_name |-> ""]
      [] OTHER                     -> [arm |-> "unknown", script_name |-> ""]

\* The arm of the match in handle_command that a command string selects.
handle_command(command) ==
    CASE command = "ALLOW_NETWORK" -> [arm |-> "run_script", script_name |-> "an"]
      [] command = "BLOCK_NETWORK" -> [arm |-> "run_script", script_name |-> "bn"]
      [] command = "LOCK_SCREEN"   -> [arm |-> "run_script", script_name |-> "sl"]
      [] command = "LOCK_USB"      -> [arm |-> "run_script", script_name |-> "lu"]
      [] command = "UNLOCK_USB"    -> [arm |-> "run_script", script_name |-> "uu"]
      [] command = "CHECK_STATUS"  -> [arm |-> "check_status", script_name |-> ""]
      [] OTHER                     -> [arm |-> "unknown", script_name |-> ""]

UnknownCommand(command) == [msg |-> "Unknown command: {}", args |-> <<command>>]

\* The process run_script spawns: shell, flag, script path.
run_script_spawn(target_os, script_name) ==
    IF target_os = "windows"
    THEN [program |-> "cmd",
          args |-> <<"/C", <<script_directory(target_os), "\\", script_name, ".bat">> >>]
    ELSE [program |-> "bash",
          args |-> <<"-c", <<script_directory(target_os), "/", script_name, ".sh">> >>]

\* Variant: the exit status is not looked at.
run_script_result_IgnoreStatus(script_name, output) ==
    Ok(from_utf8_lossy(output.stdout))

\* What run_script returns once command.output().await has yielded output.
run_script_result(script_name, output) ==
    IF output.status = 0
    THEN Ok(from_utf8_lossy(output.stdout))
    ELSE Err([msg |-> "Script execution failed: {}\nError: {}",
              args |-> <<script_name, from_utf8_lossy(output.stderr)>>])

\* The process check_status spawns.
check_status_spawn(target_os) ==
    IF target_os = "windows"
    THEN [program |-> "tasklist", args |-> << >>]
    ELSE [program |-> "ps", args |-> <<"aux">>]

check_status_result(output) ==
    IF output.status = 0
    THEN Ok(from_utf8_lossy(output.stdout))
    ELSE Err([msg |-> "Status check failed: {}",
              args |-> <<from_utf8_lossy(output.stderr)>>])


(***************************************************************************)
(* The control loop  (bin/guardian.rs, main)                               *)
(***************************************************************************)
VARIABLES
    pc,                \* where main stands: the call it makes next
    expected_key_hash, \* SecurityManager.expected_key_hash
    target_os,         \* cfg!(target_os = ...) of the build
    device,            \* the device the last wait_for_device returned
    connected,         \* the channel of `device' is connected
    calls,             \* calls made on `device' since it was returned,
                       \* each with its result: connect, get_info,
                       \* initialize, read_data, authenticate_key, a failed
                       \* wait_for_command, disconnect
    command,           \* the command string last received in this session
    cmdStatus,         \* "none", "pending" (received), "reported" (printed)
    lastResult,        \* what the last call of handle_command returned
    spawned,           \* the processes that call spawned
    running,           \* number of spawned processes that have not exited
    lastOutput,        \* the output that call collected from its process
    initialized,       \* (direct use of a UsbKey) initialize has succeeded
                       \* since construction or the last disconnect
    lastCall,          \* (direct use) the last method called on the UsbKey
                       \* or the SecurityManager: its argument, the calls it
                       \* made on the channel, its result
    auths,             \* (direct use) the last two authenticate_key calls:
                       \* what the read returned, the bytes hashed, the result
    iterations,        \* (reference backend) iterations of the loop of main
                       \* begun so far, counted up to MaxIterations
    channel,           \* (file monitor) events sent by the watcher and not
                       \* yet received: the mpsc channel of monitor
    mpc,               \* (file monitor) where the loop of monitor stands
    event,             \* (file monitor) the event rx.recv() returned
    is_paused,         \* FileMonitor.is_paused
    event_history,     \* FileMonitor.event_history
    stats,             \* FileMonitor.stats
    handled,           \* (file monitor) number of handle_event calls so far
    dropped            \* (file monitor) number of events let go because
                       \* is_paused read true, counted up to MaxDropped

config == <<expected_key_hash, target_os>>
session == <<device, connected, calls>>
dispatch == <<command, cmdStatus, lastResult, spawned, running, lastOutput>>
harness == <<initialized, lastCall, auths>>
monitor == <<channel, mpc, event, is_paused, event_history, stats, handled,
             dropped>>
vars == <<pc, expected_key_hash, target_os, device, connected, calls,
          command, cmdStatus, lastResult, spawned, running, lastOutput,
          initialized, lastCall, auths, iterations,
          channel, mpc, event, is_paused, event_history, stats, handled,
          dropped>>

NoResult == Err([msg |-> "", args |-> << >>])
NoOutput == [status |-> 0 - 1, stdout |-> << >>, stderr |-> << >>]

Call(op, res) == [op |-> op, res |-> res]

NoCall == [op |-> "none", arg |-> "", chan |-> << >>, res |-> NoResult]

\* No FileMonitor exists: the guardian is a program of its own.
NoEvent == [kind |-> "none", paths |-> << >>]
MonitorNotRunning ==
    /\ channel = << >>
    /\ mpc = "NotRunning"
    /\ event = NoEvent
    /\ is_paused = FALSE
    /\ event_history = << >>
    /\ stats = << >>
    /\ handled = 0
    /\ dropped = 0

Init ==
    /\ pc = "WaitingForDevice"
    /\ expected_key_hash \in ExpectedHashes
    /\ target_os \in TargetOses
    /\ device = NoDevice
    /\ connected = FALSE
    /\ calls = << >>
    /\ command = ""
    /\ cmdStatus = "none"
    /\ lastResult = NoResult
    /\ spawned = << >>
    /\ running = 0
    /\ lastOutput = NoOutput
    /\ initialized = FALSE
    /\ lastCall = NoCall
    /\ auths = << >>
    /\ iterations = 0
    /\ MonitorNotRunning

\* Variant: every device is initialized, UsbKey or not.
MainWaitForDevice_NoDowncast ==
    /\ pc = "WaitingForDevice"
    /\ \E res \in {Ok(d) : d \in Devices} \cup {Err(Timeout), Err(IoError)} :
         IF ~res.ok
         THEN /\ pc' = "Terminated"
              /\ UNCHANGED <<config, harness, iterations, monitor, session, dispatch>>
         ELSE /\ device' = res.val
              /\ connected' = FALSE
              /\ calls' = << >>
              /\ command' = ""
              /\ cmdStatus' = "none"
              /\ lastResult' = NoResult
              /\ spawned' = << >>
              /\ lastOutput' = NoOutput
              /\ pc' = "Initializing"
              /\ UNCHANGED <<config, harness, iterations, monitor, running>>

\* device_manager.wait_for_device(USB_TIMEOUT).await?  and the downcast.
\* An Err leaves main through `?'.  A device that is a UsbKey is initialized
\* next; any other device is ignored and the loop starts over.
MainWaitForDevice ==
    /\ pc = "WaitingForDevice"
    /\ \E res \in {Ok(d) : d \in Devices} \cup {Err(Timeout), Err(IoError)} :
         IF ~res.ok
         THEN /\ pc' = "Terminated"
              /\ UNCHANGED <<config, harness, iterations, monitor, session, dispatch>>
         ELSE /\ device' = res.val
              /\ connected' = FALSE
              /\ calls' = << >>
              /\ command' = ""
              /\ cmdStatus' = "none"
              /\ lastResult' = NoResult
              /\ spawned' = << >>
              /\ lastOutput' = NoOutput
              /\ pc' = IF res.val.is_usb_key THEN "Initializing"
                       ELSE "WaitingForDevice"
              /\ UNCHANGED <<config, harness, iterations, monitor, running>>

\* Variant: a failed initialize is tried once more on the same token.
MainInitialize_Retry ==
    /\ pc = "Initializing"
    /\ \E connectRes \in {Ok(Unit), Err(IoError)},
          infoRes \in {Ok(device.info), Err(IoError)} :
         LET res == initialize(device.key_id, connectRes, infoRes)
         IN  /\ connected' = connectRes.ok
             /\ calls' = calls
                    \o <<Call("connect", connectRes)>>
                    \o (IF connectRes.ok THEN <<Call("get_info", infoRes)>>
                        ELSE << >>)
                    \o <<Call("initialize", res)>>
             /\ pc' = IF res.ok THEN "Authenticating"
                      ELSE IF Len(calls) < 3 THEN "Initializing"
                      ELSE "WaitingForDevice"
    /\ UNCHANGED <<config, harness, iterations, monitor, device, dispatch>>

\* usb_key.initialize().await; on Err: continue.
MainInitialize ==
    /\ pc = "Initializing"
    /\ \E connectRes \in {Ok(Unit), Err(IoError)},
          infoRes \in {Ok(device.info), Err(IoError)} :
         LET res == initialize(device.key_id, connectRes, infoRes)
         IN  /\ connected' = connectRes.ok
             /\ calls' = calls
                    \o <<Call("connect", connectRes)>>
                    \o (IF connectRes.ok THEN <<Call("get_info", infoRes)>>
                        ELSE << >>)
                    \o <<Call("initialize", res)>>
             /\ pc' = IF res.ok THEN "Authenticating" ELSE "WaitingForDevice"
    /\ UNCHANGED <<config, harness, iterations, monitor, device, dispatch>>

\* Variant: the `continue' after a failed authentication is missing.
MainAuthenticate_NoContinue ==
    /\ pc = "Authenticating"
    /\ \E readRes \in {Ok(d) : d \in KeyData} \cup {Err(IoError)} :
         LET res == authenticate_key(expected_key_hash, readRes)
         IN  /\ calls' = calls \o <<Call("read_data", readRes),
                                    Call("authenticate_key", res)>>
             /\ pc' = "CommandLoop"
    /\ UNCHANGED <<config, harness, iterations, monitor, device, connected, dispatch>>

\* security_manager.authenticate_key(usb_key).await; on Err: continue.
MainAuthenticate ==
    /\ pc = "Authenticating"
    /\ \E readRes \in {Ok(d) : d \in KeyData} \cup {Err(IoError)} :
         LET res == authenticate_key(expected_key_hash, readRes)
         IN  /\ calls' = calls \o <<Call("read_data", readRes),
                                    Call("authenticate_key", res)>>
             /\ pc' = IF res.ok THEN "CommandLoop" ELSE "WaitingForDevice"
    /\ UNCHANGED <<config, harness, iterations, monitor, device, connected, dispatch>>

\* Variant: a failed command wait is propagated with `?'.
MainWaitForCommand_Propagate ==
    /\ pc = "CommandLoop"
    /\ \E res \in {Ok(c) : c \in Commands} \cup {Err(Timeout), Err(IoError)} :
         IF res.ok
         THEN /\ command' = res.val
              /\ cmdStatus' = "pending"
              /\ pc' = "Dispatching"
              /\ UNCHANGED <<config, harness, iterations, monitor, session, lastResult, spawned,
                             running, lastOutput>>
         ELSE /\ calls' = Append(calls, Call("wait_for_command", res))
              /\ pc' = "Terminated"
              /\ UNCHANGED <<config, harness, iterations, monitor, device, connected, dispatch>>

\* usb_key.wait_for_command(COMMAND_TIMEOUT).await; on Err: break.
MainWaitForCommand ==
    /\ pc = "CommandLoop"
    /\ \E res \in {Ok(c) : c \in Commands} \cup {Err(Timeout), Err(IoError)} :
         IF res.ok
         THEN /\ command' = res.val
              /\ cmdStatus' = "pending"
              /\ pc' = "Dispatching"
              /\ UNCHANGED <<config, harness, iterations, monitor, session, lastResult, spawned,
                             running, lastOutput>>
         ELSE /\ calls' = Append(calls, Call("wait_for_command", res))
              /\ pc' = "Disconnecting"
              /\ UNCHANGED <<config, harness, iterations, monitor, device, connected, dispatch>>

\* Variant: the process is spawned and not awaited (spawn in place of output).
MainHandleCommand_NoAwait ==
    /\ pc = "Dispatching"
    /\ LET m == handle_command(command)
           proc == IF m.arm = "run_script"
                   THEN run_script_spawn(target_os, m.script_name)
                   ELSE check_status_spawn(target_os)
       IN  IF m.arm = "unknown"
           THEN /\ lastResult' = Err(UnknownCommand(command))
                /\ spawned' = << >>
                /\ UNCHANGED running
           ELSE \E spawnOk \in BOOLEAN :
                  /\ spawned' = <<proc>>
                  /\ IF spawnOk
                     THEN /\ running' = running + 1
                          /\ lastResult' = Ok(<< >>)
                     ELSE /\ lastResult' = Err(IoError)
                          /\ UNCHANGED running
    /\ cmdStatus' = "reported"
    /\ pc' = "CommandLoop"
    /\ lastOutput' = NoOutput
    /\ UNCHANGED <<config, harness, iterations, monitor, session, command>>

\* command_handler.handle_command(&command).await up to the point where it
\* awaits the output of the process it spawned.  An unknown command and a
\* failed spawn return at once and the outcome is printed.
MainHandleCommand ==
    /\ pc = "Dispatching"
    /\ LET m == handle_command(command)
           proc == IF m.arm = "run_script"
                   THEN run_script_spawn(target_os, m.script_name)
                   ELSE check_status_spawn(target_os)
       IN  IF m.arm = "unknown"
           THEN /\ lastResult' = Err(UnknownCommand(command))
                /\ cmdStatus' = "reported"
                /\ spawned' = << >>
                /\ pc' = "CommandLoop"
                /\ UNCHANGED running
           ELSE \E spawnOk \in BOOLEAN :
                  /\ spawned' = <<proc>>
                  /\ IF spawnOk
                     THEN /\ running' = running + 1
                          /\ pc' = "AwaitingProcess"
                          /\ UNCHANGED <<lastResult, cmdStatus>>
                     ELSE /\ lastResult' = Err(IoError)
                          /\ cmdStatus' = "reported"
                          /\ pc' = "CommandLoop"
                          /\ UNCHANGED running
    /\ lastOutput' = NoOutput
    /\ UNCHANGED <<config, harness, iterations, monitor, session, command>>

\* Variant: a command that fails ends the command loop.
MainProcessExit_BreakOnError ==
    /\ pc = "AwaitingProcess"
    /\ \E output \in Outputs :
         LET m == handle_command(command)
             res == IF m.arm = "run_script"
                    THEN run_script_result(m.script_name, output)
                    ELSE check_status_result(output)
         IN  /\ lastOutput' = output
             /\ lastResult' = res
             /\ pc' = IF res.ok THEN "CommandLoop" ELSE "Disconnecting"
    /\ running' = running - 1
    /\ cmdStatus' = "reported"
    /\ UNCHANGED <<config, harness, iterations, monitor, session, command, spawned>>

\* command.output().await completes: the process has exited, handle_command
\* returns and the outcome is printed.
MainProcessExit ==
    /\ pc = "AwaitingProcess"
    /\ \E output \in Outputs :
         LET m == handle_command(command)
         IN  /\ lastOutput' = output
             /\ lastResult' = IF m.arm = "run_script"
                              THEN run_script_result(m.script_name, output)
                              ELSE check_status_result(output)
    /\ running' = running - 1
    /\ cmdStatus' = "reported"
    /\ pc' = "CommandLoop"
    /\ UNCHANGED <<config, harness, iterations, monitor, session, command, spawned>>

\* Variant: a failed disconnect is propagated with `?'.
MainDisconnect_Propagate ==
    /\ pc = "Disconnecting"
    /\ \E res \in {Ok(Unit), Err(IoError)} :
         /\ calls' = Append(calls, Call("disconnect", res))
         /\ connected' = IF res.ok THEN FALSE ELSE connected
         /\ pc' = IF res.ok THEN "WaitingForDevice" ELSE "Terminated"
    /\ UNCHANGED <<config, harness, iterations, monitor, device, dispatch>>

\* usb_key.disconnect().await; an Err is printed, the loop starts over.
MainDisconnect ==
    /\ pc = "Disconnecting"
    /\ \E res \in {Ok(Unit), Err(IoError)} :
         /\ calls' = Append(calls, Call("disconnect", res))
         /\ connected' = IF res.ok THEN FALSE ELSE connected
    /\ pc' = "WaitingForDevice"
    /\ UNCHANGED <<config, harness, iterations, monitor, device, dispatch>>

Next ==
    \/ MainWaitForDevice
    \/ MainInitialize
    \/ MainAuthenticate
    \/ MainWaitForCommand
    \/ MainHandleCommand
    \/ MainProcessExit
    \/ MainDisconnect

Spec == Init /\ [][Next]_vars


(***************************************************************************)
(* Direct use of a UsbKey and a SecurityManager  (connector/usb_key.rs,    *)
(* connector/security.rs), as the tests of bin/guardian.rs use them: a     *)
(* caller that owns one UsbKey over some channel and calls its methods,    *)
(* and authenticate_key on it, in any order.  The channel answers every    *)
(* call with any outcome its contract allows.                              *)
(***************************************************************************)
\* A call the UsbKey makes on its channel (self.device), with its result.
ChanCall(op, arg, res) == [op |-> op, arg |-> arg, res |-> res]

\* UsbKey::read_data(size): self.device.read(size).await
read_data(size, chanRes) ==
    [chan |-> <<ChanCall("read", size, chanRes)>>, res |-> chanRes]

\* UsbKey::write_data(data): self.device.write(data).await
write_data(data, chanRes) ==
    [chan |-> <<ChanCall("write", data, chanRes)>>, res |-> chanRes]

\* Variant: the command received is put in upper case.
wait_for_command_Normalized(timeout, chanRes) ==
    [chan |-> <<ChanCall("wait_for_command", timeout, chanRes)>>,
     res  |-> IF chanRes.ok /\ chanRes.val = "lock_screen"
              THEN Ok("LOCK_SCREEN")
              ELSE chanRes]

\* UsbKey::wait_for_command(timeout): self.device.wait_for_command(timeout).await
wait_for_command(timeout, chanRes) ==
    [chan |-> <<ChanCall("wait_for_command", timeout, chanRes)>>, res |-> chanRes]

\* The UsbKeys, expected digests and channel answers of the direct use.
KeyDevices ==
    [is_usb_key : {TRUE}, key_id : {"test_key_id"},
     info : [id : {"test_key_id", "wrong_id"}, device_type : {"USB", "Disk"}]]
KeyHashes == { TestKeyHash, LongKeyHash }
KeyReads == { Ok(TestKeyData), Ok(LongKeyData), Err(IoError) }
KeyCommands == { Ok("ALLOW_NETWORK"), Ok("lock_screen"), Err(Timeout), Err(IoError) }
KeySizes == { READ_SIZE, Len(TestKeyData) }
KeyTimeouts == { COMMAND_TIMEOUT, 5 }
KeyWrites == { << >>, TestKeyData }

InitKey ==
    /\ pc = "NotRunning"
    /\ expected_key_hash \in KeyHashes
    /\ target_os = "unix"
    /\ device \in KeyDevices
    /\ connected = FALSE
    /\ calls = << >>
    /\ command = ""
    /\ cmdStatus = "none"
    /\ lastResult = NoResult
    /\ spawned = << >>
    /\ running = 0
    /\ lastOutput = NoOutput
    /\ initialized = FALSE
    /\ lastCall = NoCall
    /\ auths = << >>
    /\ iterations = 0
    /\ MonitorNotRunning

mainVars == <<pc, target_os, calls, dispatch, iterations, monitor>>

\* usb_key.initialize().await
KeyInitialize ==
    /\ \E connectRes \in {Ok(Unit), Err(IoError)},
          infoRes \in {Ok(device.info), Err(IoError)} :
         LET res == initialize(device.key_id, connectRes, infoRes)
         IN  /\ connected' = (connectRes.ok \/ connected)
             /\ initialized' = (res.ok \/ initialized)
             /\ lastCall' =
                  [op |-> "initialize", arg |-> "",
                   chan |-> <<ChanCall("connect", "", connectRes)>>
                            \o (IF connectRes.ok
                                THEN <<ChanCall("get_info", "", infoRes)>>
                                ELSE << >>),
                   res |-> res]
    /\ UNCHANGED <<mainVars, expected_key_hash, device, auths>>

\* Variant: read_data refuses a key that was not initialized.
KeyReadData_RequiresInitialize ==
    /\ \E size \in KeySizes, chanRes \in KeyReads :
         LET r == read_data(size, chanRes)
         IN  lastCall' = [op |-> "read_data", arg |-> size,
                          chan |-> r.chan,
                          res |-> IF initialized THEN r.res
                                  ELSE Err([msg |-> "Not initialized",
                                            args |-> << >>])]
    /\ UNCHANGED <<mainVars, expected_key_hash, device, connected,
                   initialized, auths>>

\* usb_key.read_data(size).await
KeyReadData ==
    /\ \E size \in KeySizes, chanRes \in KeyReads :
         LET r == read_data(size, chanRes)
         IN  lastCall' = [op |-> "read_data", arg |-> size,
                          chan |-> r.chan, res |-> r.res]
    /\ UNCHANGED <<mainVars, expected_key_hash, device, connected,
                   initialized, auths>>

\* usb_key.write_data(data).await
KeyWriteData ==
    /\ \E data \in KeyWrites, chanRes \in {Ok(Unit), Err(IoError)} :
         LET r == write_data(data, chanRes)
         IN  lastCall' = [op |-> "write_data", arg |-> data,
                          chan |-> r.chan, res |-> r.res]
    /\ UNCHANGED <<mainVars, expected_key_hash, device, connected,
                   initialized, auths>>

\* usb_key.wait_for_command(timeout).await
KeyWaitForCommand ==
    /\ \E timeout \in KeyTimeouts, chanRes \in KeyCommands :
         LET r == wait_for_command(timeout, chanRes)
         IN  lastCall' = [op |-> "wait_for_command", arg |-> timeout,
                          chan |-> r.chan, res |-> r.res]
    /\ UNCHANGED <<mainVars, expected_key_hash, device, connected,
                   initialized, auths>>

\* The last two authenticate_key calls after one more.
Remember(a) == IF auths = << >> THEN <<a>> ELSE <<auths[Len(auths)], a>>

\* Variant: a key that authenticated once stays authenticated.
KeyAuthenticate_Cached ==
    /\ \E chanRes \in KeyReads :
         LET r == read_data(READ_SIZE, chanRes)
             res == IF \E i \in DOMAIN auths : auths[i].res.ok THEN Ok(Unit)
                    ELSE authenticate_key(expected_key_hash, r.res)
         IN  /\ lastCall' = [op |-> "authenticate_key", arg |-> "",
                             chan |-> r.chan, res |-> res]
             /\ auths' = Remember([read |-> chanRes,
                                   hashed |-> IF r.res.ok THEN key_data(r.res)
                                              ELSE << >>,
                                   res |-> res])
    /\ UNCHANGED <<mainVars, expected_key_hash, device, connected, initialized>>

\* security_manager.authenticate_key(&usb_key).await: verify_key reads
\* READ_SIZE bytes through read_data and hashes what it got.
KeyAuthenticate ==
    /\ \E chanRes \in KeyReads :
         LET r == read_data(READ_SIZE, chanRes)
             res == authenticate_key(expected_key_hash, r.res)
         IN  /\ lastCall' = [op |-> "authenticate_key", arg |-> "",
                             chan |-> r.chan, res |-> res]
             /\ auths' = Remember([read |-> chanRes,
                                   hashed |-> IF r.res.ok THEN key_data(r.res)
                                              ELSE << >>,
                                   res |-> res])
    /\ UNCHANGED <<mainVars, expected_key_hash, device, connected, initialized>>

\* usb_key.disconnect().await  (impl Device for UsbKey)
KeyDisconnect ==
    /\ \E chanRes \in {Ok(Unit), Err(IoError)} :
         /\ connected' = IF chanRes.ok THEN FALSE ELSE connected
         /\ lastCall' = [op |-> "disconnect", arg |-> "",
                         chan |-> <<ChanCall("disconnect", "", chanRes)>>,
                         res |-> chanRes]
    /\ initialized' = FALSE
    /\ UNCHANGED <<mainVars, expected_key_hash, device, auths>>

NextKey ==
    \/ KeyInitialize
    \/ KeyReadData
    \/ KeyWriteData
    \/ KeyWaitForCommand
    \/ KeyAuthenticate
    \/ KeyDisconnect

SpecKey == InitKey /\ [][NextKey]_vars

(***************************************************************************)
(* The control loop over the reference backend  (bin/guardian.rs):         *)
(* main with the PlaceholderDeviceManager it constructs, whose tokens are  *)
(* UsbKeys over a PlaceholderDevice.                                       *)
(***************************************************************************)
\* Iterations of the loop that are told apart.
MaxIterations == 8

\* PlaceholderDevice::connect
PlaceholderDevice_connect == Ok(Unit)

\* Variant: the placeholder descriptor carries the id of the key.
PlaceholderDevice_get_info_KeyId ==
    Ok([id |-> "placeholder_key_id", device_type |-> "USB"])

\* PlaceholderDevice::get_info
PlaceholderDevice_get_info ==
    Ok([id |-> "placeholder_id", device_type |-> "USB"])

\* PlaceholderDeviceManager::wait_for_device: a new UsbKey over a new
\* PlaceholderDevice, whatever the timeout.
PlaceholderDeviceManager_wait_for_device ==
    Ok([is_usb_key |-> TRUE, key_id |-> "placeholder_key_id",
        info |-> PlaceholderDevice_get_info.val])

\* device_manager.wait_for_device(USB_TIMEOUT).await?  and the downcast, with
\* device_manager the PlaceholderDeviceManager.
PlaceholderWaitForDevice ==
    /\ pc = "WaitingForDevice"
    /\ LET res == PlaceholderDeviceManager_wait_for_device
       IN  IF ~res.ok
           THEN /\ pc' = "Terminated"
                /\ UNCHANGED <<session, dispatch, iterations>>
           ELSE /\ device' = res.val
                /\ connected' = FALSE
                /\ calls' = << >>
                /\ command' = ""
                /\ cmdStatus' = "none"
                /\ lastResult' = NoResult
                /\ spawned' = << >>
                /\ lastOutput' = NoOutput
                /\ pc' = IF res.val.is_usb_key THEN "Initializing"
                         ELSE "WaitingForDevice"
                /\ iterations' = IF iterations < MaxIterations
                                 THEN iterations + 1 ELSE iterations
                /\ UNCHANGED running
    /\ UNCHANGED <<config, harness, monitor>>

\* usb_key.initialize().await over the PlaceholderDevice; on Err: continue.
PlaceholderInitialize ==
    /\ pc = "Initializing"
    /\ LET connectRes == PlaceholderDevice_connect
           infoRes == PlaceholderDevice_get_info
           res == initialize(device.key_id, connectRes, infoRes)
       IN  /\ connected' = connectRes.ok
           /\ calls' = calls
                  \o <<Call("connect", connectRes)>>
                  \o (IF connectRes.ok THEN <<Call("get_info", infoRes)>>
                      ELSE << >>)
                  \o <<Call("initialize", res)>>
           /\ pc' = IF res.ok THEN "Authenticating" ELSE "WaitingForDevice"
    /\ UNCHANGED <<config, harness, monitor, device, dispatch, iterations>>

\* The steps main can take over the reference backend.  After a successful
\* initialize main would authenticate: no step of this specification does.
NextPlaceholder ==
    \/ PlaceholderWaitForDevice
    \/ PlaceholderInitialize

\* main never blocks for good: the placeholder calls return at once.
SpecPlaceholder ==
    Init /\ [][NextPlaceholder]_vars /\ WF_vars(NextPlaceholder)

(***************************************************************************)
(* The file monitor  (file-monitor/src/lib.rs, main.rs): the task running  *)
(* FileMonitor::monitor, the watcher that sends it events through a        *)
(* channel, and the command task that calls pause and resume.              *)
(***************************************************************************)
\* tokio::sync::mpsc::channel(100)
CHANNEL_CAPACITY == 100
\* if history.len() > 100
HISTORY_LIMIT == 100

\* handle_event calls told apart; beyond HISTORY_LIMIT, so that entries are
\* evicted.
MaxHandled == 102
\* Events the watcher has sent and the loop has not yet taken up.
MaxInFlight == 2
\* The first events are of any kind; the watcher then reports a run of
\* modifications.
MaxVaried == 2
\* Events let go under pause that are told apart.
MaxDropped == 2

\* notify::Event: its kind and its paths.
RawEvent(kind, paths) == [kind |-> kind, paths |-> paths]
ModifyEvent == RawEvent("Modify", <<"a">>)
WatcherEvents ==
    { ModifyEvent,
      RawEvent("Create", <<"a">>),
      RawEvent("Any", <<"a", "b">>),
      RawEvent("Any", <<"a">>) }

\* enum FileEvent; path is the new path of Renamed, and "" otherwise.
FileEvent(tag, path) == [tag |-> tag, path |-> path]
None == FileEvent("None", "")

\* FileMonitor::map_event
map_event(ev) ==
    CASE ev.kind = "AccessClose" -> FileEvent("Closed", "")
      [] ev.kind = "Access" -> FileEvent("Opened", "")
      [] ev.kind = "Modify" -> FileEvent("Modified", "")
      [] ev.kind = "Remove" -> FileEvent("Deleted", "")
      [] ev.kind = "Create" -> FileEvent("Created", "")
      [] ev.kind = "Any" ->
            IF Len(ev.paths) = 2 THEN FileEvent("Renamed", ev.paths[2])
            ELSE None
      [] OTHER -> None

\* Variant: the entry just pushed is the one removed.
update_history_EvictNewest(history, time, file_event) ==
    LET pushed == Append(history, [time |-> time, event |-> file_event])
    IN  IF Len(pushed) > HISTORY_LIMIT
        THEN SubSeq(pushed, 1, Len(pushed) - 1)
        ELSE pushed

\* FileMonitor::update_history: push, then remove(0) when over the limit.
update_history(history, time, file_event) ==
    LET pushed == Append(history, [time |-> time, event |-> file_event])
    IN  IF Len(pushed) > HISTORY_LIMIT THEN Tail(pushed) ELSE pushed

\* FileMonitor::new: stats is an empty map.
EmptyStats == [k \in {} |-> 0]

\* FileMonitor::update_stats: *stats.entry(event).or_insert(0) += 1
update_stats(st, file_event) ==
    IF file_event \in DOMAIN st
    THEN [st EXCEPT ![file_event] = @ + 1]
    ELSE (file_event :> 1) @@ st

guardian == <<pc, config, session, dispatch, harness, iterations>>

\* main of the file monitor: FileMonitor::new and the spawn of monitor.
InitMonitor ==
    /\ pc = "NotRunning"
    /\ expected_key_hash = EXPECTED_KEY_HASH
    /\ target_os = "unix"
    /\ device = NoDevice
    /\ connected = FALSE
    /\ calls = << >>
    /\ command = ""
    /\ cmdStatus = "none"
    /\ lastResult = NoResult
    /\ spawned = << >>
    /\ running = 0
    /\ lastOutput = NoOutput
    /\ initialized = FALSE
    /\ lastCall = NoCall
    /\ auths = << >>
    /\ iterations = 0
    /\ channel = << >>
    /\ mpc = "Starting"
    /\ event = NoEvent
    /\ is_paused = FALSE
    /\ event_history = << >>
    /\ stats = EmptyStats
    /\ handled = 0
    /\ dropped = 0

\* Events sent and not yet handled or dropped.
InFlight == Len(channel) + (IF event = NoEvent THEN 0 ELSE 1)

\* monitor, up to the loop: create_watcher and watch_path may fail, and
\* monitor then returns the error.
MonitorStart ==
    /\ mpc = "Starting"
    /\ \E started \in BOOLEAN :
         mpc' = IF started THEN "Receiving" ELSE "Failed"
    /\ UNCHANGED <<guardian, channel, event, is_paused, event_history, stats,
                   handled, dropped>>

\* The closure of create_watcher: tx.blocking_send(event).
WatcherSend ==
    /\ mpc \in { "Receiving", "Received" }
    /\ Len(channel) < CHANNEL_CAPACITY
    /\ InFlight < MaxInFlight
    /\ handled + InFlight < MaxHandled
    /\ \E ev \in IF handled + InFlight < MaxVaried THEN WatcherEvents
                 ELSE { ModifyEvent } :
         channel' = Append(channel, ev)
    /\ UNCHANGED <<guardian, mpc, event, is_paused, event_history, stats,
                   handled, dropped>>

\* while let Some(event) = rx.recv().await
MonitorRecv ==
    /\ mpc = "Receiving"
    /\ channel # << >>
    /\ event' = Head(channel)
    /\ channel' = Tail(channel)
    /\ mpc' = "Received"
    /\ UNCHANGED <<guardian, is_paused, event_history, stats, handled,
                   dropped>>

\* FileMonitor::handle_event: the history and the statistics after it; the
\* time is that of a clock that ticks with every call.
handle_event(file_event) ==
    [history |-> update_history(event_history, handled + 1, file_event),
     stats   |-> update_stats(stats, file_event)]

\* Variant: the loop does not look at is_paused.
MonitorProcess_IgnorePause ==
    /\ mpc = "Received"
    /\ IF map_event(event) # None
       THEN LET after == handle_event(map_event(event))
            IN  /\ event_history' = after.history
                /\ stats' = after.stats
                /\ handled' = handled + 1
       ELSE UNCHANGED <<event_history, stats, handled>>
    /\ event' = NoEvent
    /\ mpc' = "Receiving"
    /\ UNCHANGED <<guardian, channel, is_paused, dropped>>

\* The body of the loop of monitor: the event is mapped and handled when
\* is_paused reads false, and let go otherwise.
MonitorProcess ==
    /\ mpc = "Received"
    /\ IF ~is_paused /\ map_event(event) # None
       THEN LET after == handle_event(map_event(event))
            IN  /\ event_history' = after.history
                /\ stats' = after.stats
                /\ handled' = handled + 1
       ELSE UNCHANGED <<event_history, stats, handled>>
    /\ dropped' = IF is_paused /\ dropped < MaxDropped THEN dropped + 1
                  ELSE dropped
    /\ event' = NoEvent
    /\ mpc' = "Receiving"
    /\ UNCHANGED <<guardian, channel, is_paused>>

\* FileMonitor::pause, on the command "pause"
Pause ==
    /\ mpc # "Failed"
    /\ is_paused' = TRUE
    /\ UNCHANGED <<guardian, channel, mpc, event, event_history, stats,
                   handled, dropped>>

\* FileMonitor::resume, on the command "resume"
Resume ==
    /\ mpc # "Failed"
    /\ is_paused' = FALSE
    /\ UNCHANGED <<guardian, channel, mpc, event, event_history, stats,
                   handled, dropped>>

NextMonitor ==
    \/ MonitorStart
    \/ WatcherSend
    \/ MonitorRecv
    \/ MonitorProcess
    \/ Pause
    \/ Resume

SpecMonitor == InitMonitor /\ [][NextMonitor]_vars

(***************************************************************************)
(* Properties of the control loop.                                         *)
(***************************************************************************)
CallsOf(op) == { i \in DOMAIN calls : calls[i].op = op }
Called(op) == CallsOf(op) # {}
CalledOk(op) == \E i \in CallsOf(op) : calls[i].res.ok

RecognizedCommands ==
    { "ALLOW_NETWORK", "BLOCK_NETWORK", "LOCK_SCREEN", "LOCK_USB", "UNLOCK_USB",
      "CHECK_STATUS" }
ScriptCommands == RecognizedCommands \ { "CHECK_STATUS" }

\* C1: handle_command is invoked only in a session in which, since the device
\* was returned by wait_for_device, initialize succeeded and then
\* authenticate_key succeeded on that device, and which has not been left
\* (no failed command wait, no disconnect); nothing of an earlier session
\* counts, since `calls' starts empty with every device.
C1_AuthenticatedDispatch ==
    pc \in {"Dispatching", "AwaitingProcess"} =>
        /\ device.is_usb_key
        /\ \E i \in CallsOf("initialize"), j \in CallsOf("authenticate_key") :
             /\ calls[i].res.ok
             /\ calls[j].res.ok
             /\ i < j
        /\ CallsOf("initialize") \cup CallsOf("authenticate_key")
             \subseteq {i \in DOMAIN calls : calls[i].res.ok}
        /\ ~Called("wait_for_command")
        /\ ~Called("disconnect")

C1_Witness ==
    /\ pc = "Dispatching"
    /\ command = "LOCK_SCREEN"
    /\ CalledOk("initialize")
    /\ CalledOk("authenticate_key")

\* Published SHA-256 test vectors for the data of the model, in lowercase
\* hexadecimal.
AbHash == <<
    "f", "b", "8", "e", "2", "0", "f", "c", "2", "e", "4", "c", "3", "f", "2", "4",
    "8", "c", "6", "0", "c", "3", "9", "b", "d", "6", "5", "2", "f", "3", "c", "1",
    "3", "4", "7", "2", "9", "8", "b", "b", "9", "7", "7", "b", "8", "b", "4", "d",
    "5", "9", "0", "3", "b", "8", "5", "0", "5", "5", "6", "2", "0", "6", "0", "3" >>

ReferenceHexDigest(data) ==
    CASE data = TestKeyData -> TestKeyHash
      [] data = << >>       -> EmptyDataHash
      [] data = <<97, 98>>  -> AbHash
      [] data = LongKeyData -> LongKeyHash

\* C2: authenticate_key succeeds if and only if the read succeeded and the
\* lowercase hexadecimal SHA-256 digest of the bytes read equals the expected
\* digest string; a mismatch and a read failure both fail.
C2_AuthenticateIffDigestMatches ==
    \A j \in CallsOf("authenticate_key") :
        LET read == calls[j - 1].res
        IN  /\ calls[j - 1].op = "read_data"
            /\ calls[j].res.ok <=>
                  (read.ok /\ ReferenceHexDigest(read.val) = expected_key_hash)

C2_Witness ==
    \E j \in CallsOf("authenticate_key") :
        /\ calls[j].res.ok
        /\ calls[j - 1].res.ok
        /\ calls[j - 1].res.val = TestKeyData
        /\ expected_key_hash = TestKeyHash

\* handle_command has returned for `command', or is awaiting its process.
Dispatched == cmdStatus = "reported" \/ pc = "AwaitingProcess"

\* C3: exactly the six recognized command strings make handle_command spawn
\* a process; every other string fails with the unknown-command error and
\* spawns nothing.
C3_OnlyRecognizedSpawn ==
    Dispatched =>
        IF command \in RecognizedCommands
        THEN Len(spawned) = 1
        ELSE /\ spawned = << >>
             /\ cmdStatus = "reported"
             /\ ~lastResult.ok
             /\ lastResult.err = [msg |-> "Unknown command: {}", args |-> <<command>>]

C3_Witness ==
    /\ cmdStatus = "reported"
    /\ command = "lock_screen"
    /\ spawned = << >>
    /\ ~lastResult.ok

\* C4 as claimed: on a device whose descriptor type is not USB the loop calls
\* neither initialize nor authenticate_key.
C4_NoInitializeOnNonUsbType ==
    (device # NoDevice /\ device.info.device_type # "USB") =>
        (~Called("initialize") /\ ~Called("authenticate_key"))

\* C4 amended: on a device that is not a UsbKey the loop makes no call at all
\* and waits for a device again; on a UsbKey whose descriptor type is not USB
\* initialize is called and fails, and authenticate_key is never called.
C4_NonUsbKeyIgnored ==
    /\ ~device.is_usb_key =>
          (calls = << >> /\ pc \in {"WaitingForDevice", "Terminated"})
    /\ (device.is_usb_key /\ device.info.device_type # "USB") =>
          /\ ~CalledOk("initialize")
          /\ ~Called("read_data")
          /\ ~Called("authenticate_key")
          /\ pc \in {"Initializing", "WaitingForDevice", "Terminated"}

C4_Witness ==
    /\ device # NoDevice
    /\ ~device.is_usb_key
    /\ device.info.device_type = "Disk"
    /\ pc = "WaitingForDevice"
    /\ calls = << >>

\* C5 as claimed: on a token whose descriptor id differs from the key id,
\* whatever its descriptor type, initialize fails with the identity mismatch
\* and no data is read (stated for a channel whose connect and get_info
\* succeed).
C5_AlwaysIdentityMismatch ==
    \A i \in CallsOf("initialize") :
        (device.info.id # device.key_id
         /\ CalledOk("connect") /\ CalledOk("get_info")) =>
            /\ ~calls[i].res.ok
            /\ calls[i].res.err.msg = "Unexpected USB key"
            /\ ~Called("read_data")

\* C5 amended: on a token whose descriptor id differs from the key id
\* initialize fails and no data is read; the failure is the identity mismatch
\* exactly when connect and get_info succeeded and the descriptor type is
\* USB, it is the wrong-device-type failure when the type is not USB, and it
\* is the channel's own error when connect or get_info failed.
C5_MismatchFailsClosed ==
    \A i \in CallsOf("initialize") :
        device.info.id # device.key_id =>
            /\ ~calls[i].res.ok
            /\ ~Called("read_data")
            /\ ~Called("authenticate_key")
            /\ calls[i].res.err.msg =
                 IF ~CalledOk("connect") \/ ~CalledOk("get_info") THEN "IoError"
                 ELSE IF device.info.device_type # "USB" THEN "Not a USB device"
                 ELSE "Unexpected USB key"

C5_Witness ==
    /\ device.is_usb_key
    /\ device.info.id = "wrong_id"
    /\ device.key_id = "test_key_id"
    /\ device.info.device_type = "USB"
    /\ \E i \in CallsOf("initialize") :
          /\ ~calls[i].res.ok
          /\ calls[i].res.err.msg = "Unexpected USB key"
    /\ pc = "WaitingForDevice"

\* The last two calls of the session are a failed wait_for_command and one
\* disconnect.
EndedByFailedWait ==
    /\ Len(calls) >= 2
    /\ calls[Len(calls) - 1].op = "wait_for_command"
    /\ ~calls[Len(calls) - 1].res.ok
    /\ calls[Len(calls)].op = "disconnect"
    /\ Cardinality(CallsOf("disconnect")) = 1

\* C6: a failed wait_for_command leaves the command loop for the disconnect;
\* the disconnect is called once on the same token and the loop then waits
\* for a device; neither step ends the process.
C6_FailedWaitDisconnects ==
    [][ /\ (pc = "CommandLoop" /\ pc' # "Dispatching") =>
              /\ pc' = "Disconnecting"
              /\ ~Called("disconnect")'
              /\ device' = device
        /\ pc = "Disconnecting" =>
              /\ pc' = "WaitingForDevice"
              /\ EndedByFailedWait'
              /\ device' = device ]_vars

C6_Witness ==
    /\ pc = "WaitingForDevice"
    /\ EndedByFailedWait
    /\ calls[Len(calls) - 1].res.err = Timeout

\* C7: no failure of a device, a command or the device manager makes main
\* return.
C7_NeverTerminates == pc # "Terminated"

\* C8: when handle_command returns an error the session continues: the loop
\* waits for the next command on the same token, with no disconnect, no
\* initialize and no authenticate_key in between.
C8_ErrorKeepsSession ==
    [][ (pc \in {"Dispatching", "AwaitingProcess"}
         /\ cmdStatus' = "reported" /\ ~lastResult'.ok) =>
            /\ pc' = "CommandLoop"
            /\ calls' = calls
            /\ device' = device
            /\ connected' = connected ]_vars

C8_Witness ==
    /\ pc = "CommandLoop"
    /\ cmdStatus = "reported"
    /\ command = "LOCK_SCREEN"
    /\ ~lastResult.ok
    /\ lastOutput # NoOutput
    /\ lastOutput.status = 1

\* C9: at most one spawned process runs at any time, and the loop waits for
\* or dispatches the next command only when the process of the previous one
\* has exited and its outcome has been printed.
C9_OneAtATime ==
    /\ running \in {0, 1}
    /\ running = 1 <=> pc = "AwaitingProcess"
    /\ pc = "CommandLoop" => cmdStatus # "pending"
    /\ cmdStatus = "pending" => pc \in {"Dispatching", "AwaitingProcess"}

\* a further command has been received after one that ran a process
C9_Witness ==
    /\ pc = "Dispatching"
    /\ cmdStatus = "pending"
    /\ spawned # << >>
    /\ lastOutput # NoOutput
    /\ running = 0

\* The text of the outputs of the model.
ReferenceText(bytes) ==
    CASE bytes = << >>            -> << >>
      [] bytes = OutLocked        -> OutLocked
      [] bytes = ErrPermDenied    -> ErrPermDenied
      [] bytes = <<255>>          -> <<65533>>
      [] bytes = <<195, 169, 255>> -> <<233, 65533>>

\* C10: for a script command whose process has exited, handle_command
\* succeeds if and only if the exit status is zero; on success it returns
\* the captured standard output, on failure the script-execution error
\* carrying the captured standard error.
C10_ScriptResult ==
    (cmdStatus = "reported" /\ command \in ScriptCommands /\ lastOutput # NoOutput) =>
        /\ lastResult.ok <=> lastOutput.status = 0
        /\ lastResult.ok => lastResult.val = ReferenceText(lastOutput.stdout)
        /\ ~lastResult.ok =>
              /\ lastResult.err.msg = "Script execution failed: {}\nError: {}"
              /\ lastResult.err.args[2] = ReferenceText(lastOutput.stderr)

C10_Witness ==
    /\ cmdStatus = "reported"
    /\ command = "LOCK_SCREEN"
    /\ lastOutput # NoOutput
    /\ lastOutput.status = 1
    /\ lastOutput.stderr = ErrPermDenied
    /\ ~lastResult.ok
    /\ lastResult.err.args = <<"sl", ErrPermDenied>>


\* C11: every failure of authenticate_key is the same error, "authentication
\* failed", with nothing that tells a digest mismatch from a failed read.
C11_UniformAuthenticationError ==
    \A j \in CallsOf("authenticate_key") :
        ~calls[j].res.ok =>
            calls[j].res.err = [msg |-> "Key authentication failed", args |-> << >>]

\* C12: initialize connects, then fetches the descriptor, then checks the
\* type, then the id, and stops at the first failure: get_info is called
\* only after a successful connect, the result is the first failure in that
\* order, and it is Ok exactly when connect and get_info succeed, the type
\* is USB and the id equals the key id.
C12_InitializeOrder ==
    \A i \in CallsOf("initialize") :
        LET connectOk == CalledOk("connect")
            infoOk == CalledOk("get_info")
            res == calls[i].res
        IN  /\ CallsOf("connect") = {1}
            /\ Called("get_info") <=> connectOk
            /\ CallsOf("get_info") \subseteq {2}
            /\ i = IF connectOk THEN 3 ELSE 2
            /\ res.ok <=> /\ connectOk
                          /\ infoOk
                          /\ device.info.device_type = "USB"
                          /\ device.info.id = device.key_id
            /\ ~res.ok =>
                 res.err = IF ~connectOk THEN calls[1].res.err
                           ELSE IF ~infoOk THEN calls[2].res.err
                           ELSE IF device.info.device_type # "USB"
                                THEN [msg |-> "Not a USB device", args |-> << >>]
                           ELSE [msg |-> "Unexpected USB key", args |-> << >>]

\* a token of the wrong type and with the wrong id: the type is reported
C12_Witness ==
    /\ device.is_usb_key
    /\ device.info.device_type = "Disk"
    /\ device.info.id # device.key_id
    /\ CalledOk("connect")
    /\ CalledOk("get_info")
    /\ \E i \in CallsOf("initialize") :
          /\ ~calls[i].res.ok
          /\ calls[i].res.err.msg = "Not a USB device"


\* The table of section 4.5: the script code of each script command.
ReferenceCode(c) ==
    CASE c = "ALLOW_NETWORK" -> "an"
      [] c = "BLOCK_NETWORK" -> "bn"
      [] c = "LOCK_SCREEN"   -> "sl"
      [] c = "LOCK_USB"      -> "lu"
      [] c = "UNLOCK_USB"    -> "uu"

\* The process each recognized command stands for on each platform.
ReferenceProcess(os, c) ==
    IF c = "CHECK_STATUS"
    THEN IF os = "windows" THEN [program |-> "tasklist", args |-> << >>]
         ELSE [program |-> "ps", args |-> <<"aux">>]
    ELSE IF os = "windows"
         THEN [program |-> "cmd",
               args |-> <<"/C", <<"./response\\win", "\\", ReferenceCode(c), ".bat">> >>]
         ELSE [program |-> "bash",
               args |-> <<"-c", <<"./response/nix", "/", ReferenceCode(c), ".sh">> >>]

\* C14: each recognized command runs its own action: the five script
\* commands run the script <script directory><separator><code><extension>
\* of their own code through the platform's shell, CHECK_STATUS runs the
\* process listing and resolves no script path.
C14_CommandTable ==
    (Dispatched /\ command \in RecognizedCommands) =>
        spawned = <<ReferenceProcess(target_os, command)>>

C14_Witness ==
    /\ Dispatched
    /\ command = "UNLOCK_USB"
    /\ target_os = "windows"
    /\ Len(spawned) = 1
    /\ spawned[1].program = "cmd"
    /\ spawned[1].args[2][3] = "uu"

\* C16: when initialize fails the session is over: initialize was called
\* once on that token, nothing is read from it, authenticate_key is not
\* called, and the loop is back at wait_for_device.
C16_FailedInitializeAborts ==
    (\E i \in CallsOf("initialize") : ~calls[i].res.ok) =>
        /\ Cardinality(CallsOf("initialize")) = 1
        /\ calls[Len(calls)].op = "initialize"
        /\ ~Called("read_data")
        /\ ~Called("authenticate_key")
        /\ cmdStatus = "none"
        /\ pc \in {"WaitingForDevice", "Terminated"}

C16_Witness ==
    /\ pc = "WaitingForDevice"
    /\ Called("initialize")
    /\ ~CalledOk("initialize")
    /\ ~CalledOk("connect")

\* C17: when authenticate_key fails the loop is back at wait_for_device and
\* neither wait_for_command nor handle_command is called for that token.
C17_FailedAuthenticationAborts ==
    (\E j \in CallsOf("authenticate_key") : ~calls[j].res.ok) =>
        /\ pc \in {"WaitingForDevice", "Terminated"}
        /\ calls[Len(calls)].op = "authenticate_key"
        /\ ~Called("wait_for_command")
        /\ cmdStatus = "none"
        /\ command = ""
        /\ spawned = << >>

C17_Witness ==
    /\ pc = "WaitingForDevice"
    /\ CalledOk("read_data")
    /\ Called("authenticate_key")
    /\ ~CalledOk("authenticate_key")

\* C18: the disconnect step calls disconnect once and goes back to
\* wait_for_device whether the call succeeds or fails.
C18_DisconnectOnceThenWait ==
    [][ pc = "Disconnecting" =>
          /\ pc' = "WaitingForDevice"
          /\ Len(calls') = Len(calls) + 1
          /\ SubSeq(calls', 1, Len(calls)) = calls
          /\ calls'[Len(calls')].op = "disconnect"
          /\ ~Called("disconnect")
          /\ device' = device ]_vars

C18_Witness ==
    /\ pc = "WaitingForDevice"
    /\ Called("disconnect")
    /\ ~CalledOk("disconnect")
    /\ calls[Len(calls)].op = "disconnect"


(***************************************************************************)
(* Properties of the direct use of a UsbKey and a SecurityManager.         *)
(***************************************************************************)
\* The channel method behind each delegating method of UsbKey.
ChannelOp(op) ==
    CASE op = "read_data" -> "read"
      [] op = "write_data" -> "write"
      [] op = "wait_for_command" -> "wait_for_command"

Delegations == { "read_data", "write_data", "wait_for_command" }

\* The result of the last delegating call is that of one channel call with
\* the same argument.
ResultOfOneChannelCall ==
    lastCall.op \in Delegations =>
        /\ Len(lastCall.chan) = 1
        /\ lastCall.chan[1].op = ChannelOp(lastCall.op)
        /\ lastCall.chan[1].arg = lastCall.arg
        /\ lastCall.res = lastCall.chan[1].res

\* C19: read_data(size), write_data(bytes) and wait_for_command(timeout) of
\* UsbKey call the channel's read, write or wait_for_command exactly once,
\* with the same argument, and return exactly its result, value or error,
\* whatever was called on the key before; the call changes nothing the key
\* or the manager holds.
C19_PureDelegation ==
    /\ []ResultOfOneChannelCall
    /\ [][lastCall'.op \in Delegations =>
            UNCHANGED <<device, connected, initialized, expected_key_hash,
                        auths>>]_vars

C19_Witness ==
    /\ lastCall.op = "wait_for_command"
    /\ lastCall.res = Ok("lock_screen")
    /\ ~initialized


\* The methods that need a usable key.
KeyUses == { "read_data", "wait_for_command", "authenticate_key" }

\* C13 as stated: on a key whose initialize has not succeeded since
\* construction or since its last disconnect, read_data, wait_for_command
\* and authenticate_key do not succeed.
C13_UninitializedUnusable ==
    (~initialized /\ lastCall.op \in KeyUses) => ~lastCall.res.ok

\* C13: UsbKey keeps no record of initialize.  On a key whose initialize
\* has not succeeded since construction or since its last disconnect,
\* read_data and wait_for_command return the result of the channel call, and
\* authenticate_key succeeds exactly when the channel's read succeeds and the
\* bytes hash to the expected digest.
C13_UsableWithoutInitialize ==
    ~initialized =>
        /\ lastCall.op \in { "read_data", "wait_for_command" } =>
              lastCall.res = lastCall.chan[1].res
        /\ lastCall.op = "authenticate_key" =>
              (lastCall.res.ok <=>
                  /\ lastCall.chan[1].res.ok
                  /\ ReferenceHexDigest(lastCall.chan[1].res.val)
                        = expected_key_hash)

C13_Witness ==
    /\ ~initialized
    /\ lastCall.op = "authenticate_key"
    /\ lastCall.res.ok


\* C15 as stated: every authenticate_key call makes exactly one read of
\* READ_SIZE bytes and computes the digest over at most READ_SIZE bytes,
\* whatever the device returns.
C15_HashedAtMostReadSize ==
    /\ lastCall.op = "authenticate_key" =>
          /\ Len(lastCall.chan) = 1
          /\ lastCall.chan[1].op = "read"
          /\ lastCall.chan[1].arg = READ_SIZE
    /\ \A i \in DOMAIN auths : Len(auths[i].hashed) <= READ_SIZE

\* The outcome of an authenticate_key call is that of comparing the digest
\* of the bytes its own read returned with the expected digest.
OutcomeOfOwnRead(a) ==
    a.res.ok <=>
        (a.read.ok /\ ReferenceHexDigest(a.read.val) = expected_key_hash)

\* C20: the outcome of every authenticate_key call is decided by the
\* expected digest and the bytes read during that call alone: two calls
\* whose reads return the same have the same result, whatever the earlier
\* call returned.
C20_StatelessGate ==
    /\ \A i \in DOMAIN auths : OutcomeOfOwnRead(auths[i])
    /\ \A i, j \in DOMAIN auths :
          auths[i].read = auths[j].read => auths[i].res = auths[j].res

\* A key that authenticated fails the next call, on data that hashes
\* differently.
C20_Witness ==
    /\ Len(auths) = 2
    /\ auths[1].res.ok
    /\ auths[2].read.ok
    /\ ~auths[2].res.ok


(***************************************************************************)
(* Further properties of the control loop.                                 *)
(***************************************************************************)
\* C21 as stated: when the loop is about to call wait_for_device again,
\* every token whose channel was connected by initialize, and answered
\* get_info, has had disconnect called on it: also when initialize failed on
\* the type or the id, and when authenticate_key failed.
C21_ConnectedIsDisconnected ==
    (pc = "WaitingForDevice" /\ CalledOk("connect") /\ CalledOk("get_info"))
        => Called("disconnect")


\* Over the reference backend no session gets past initialize.
PlaceholderFailsClosed ==
    /\ pc \in { "WaitingForDevice", "Initializing" }
    /\ iterations > 0 =>
          /\ device.key_id = "placeholder_key_id"
          /\ device.info.id = "placeholder_id"
    /\ ~CalledOk("initialize")
    /\ pc = "WaitingForDevice" /\ iterations > 0 =>
          /\ calls[Len(calls)].op = "initialize"
          /\ calls[Len(calls)].res =
                Err([msg |-> "Unexpected USB key", args |-> << >>])
    /\ ~Called("authenticate_key")
    /\ ~Called("read_data")
    /\ ~Called("wait_for_command")
    /\ command = ""
    /\ cmdStatus = "none"
    /\ spawned = << >>

\* C22: with the PlaceholderDeviceManager and the PlaceholderDevice, every
\* wait_for_device yields a UsbKey with key id placeholder_key_id over a
\* channel whose descriptor id is placeholder_id; initialize fails on it
\* with the unexpected-key error in every iteration; main never calls
\* authenticate_key, wait_for_command or handle_command, never ends, and
\* comes back to wait_for_device again and again.
C22_PlaceholderFailsClosed ==
    /\ []PlaceholderFailsClosed
    /\ []<>(pc = "WaitingForDevice")
    /\ []<>(pc = "Initializing")

C22_Witness ==
    /\ iterations >= 2
    /\ pc = "WaitingForDevice"
    /\ Called("initialize")
    /\ ~CalledOk("initialize")


(***************************************************************************)
(* Properties of the file monitor.                                         *)
(***************************************************************************)
\* The sum of the counters of a statistics map.
RECURSIVE SumOver(_, _)
SumOver(st, keys) ==
    IF keys = {} THEN 0
    ELSE LET k == CHOOSE x \in keys : TRUE
         IN  st[k] + SumOver(st, keys \ {k})

TotalCounted == SumOver(stats, DOMAIN stats)

\* The history holds the last handled events, oldest first, and the counters
\* count all of them.
HistoryAndStats ==
    /\ Len(event_history) <= HISTORY_LIMIT
    /\ Len(event_history) = (IF handled < HISTORY_LIMIT THEN handled
                             ELSE HISTORY_LIMIT)
    /\ \A i \in DOMAIN event_history :
          event_history[i].time = handled - Len(event_history) + i
    /\ TotalCounted = handled
    /\ \A k \in DOMAIN stats :
          stats[k] >= Cardinality({ i \in DOMAIN event_history :
                                      event_history[i].event = k })
    /\ \A i \in DOMAIN event_history : event_history[i].event \in DOMAIN stats

\* A step that handles an event appends it, evicts exactly the oldest entry
\* when the history was full, and adds one to the counter of the event.
HandledStep ==
    handled' # handled =>
        LET entry == event_history'[Len(event_history')]
        IN  /\ handled' = handled + 1
            /\ entry = [time |-> handled', event |-> map_event(event)]
            /\ event_history' =
                  (IF Len(event_history) = HISTORY_LIMIT
                   THEN Tail(event_history) ELSE event_history) \o <<entry>>
            /\ stats'[entry.event] =
                  (IF entry.event \in DOMAIN stats THEN stats[entry.event]
                   ELSE 0) + 1
            /\ \A k \in DOMAIN stats' \ {entry.event} :
                  k \in DOMAIN stats /\ stats'[k] = stats[k]

\* C23: after any sequence of handled events the history holds at most
\* HISTORY_LIMIT entries in arrival order, the last ones handled; the entry
\* appended to a full history evicts exactly the oldest; the counters count
\* every handled event, so that their sum is the number of events handled
\* and not the length of the history.
C23_HistoryBoundedStatsComplete ==
    /\ []HistoryAndStats
    /\ [][HandledStep]_vars

C23_Witness ==
    /\ handled = HISTORY_LIMIT + 1
    /\ Len(event_history) = HISTORY_LIMIT
    /\ event_history[1].time = 2
    /\ TotalCounted = HISTORY_LIMIT + 1
    /\ \E k \in DOMAIN stats :
          \A i \in DOMAIN event_history : event_history[i].event # k


\* The loop of monitor runs its body on the event it received.
ProcessStep == mpc = "Received" /\ mpc' = "Receiving"

\* The body run while is_paused reads true lets the event go: history and
\* statistics stay, and the event is neither kept nor sent again.
DroppedWhilePaused ==
    (ProcessStep /\ is_paused) =>
        /\ UNCHANGED <<event_history, stats, handled>>
        /\ event' = NoEvent
        /\ channel' = channel

\* The body run while is_paused reads false, on an event that maps to a
\* FileEvent, appends it to the history and counts it, once.
HandledOnce ==
    (ProcessStep /\ ~is_paused /\ map_event(event) # None) =>
        LET file_event == map_event(event)
            before == IF file_event \in DOMAIN stats THEN stats[file_event]
                      ELSE 0
        IN  /\ handled' = handled + 1
            /\ event_history'[Len(event_history')].event = file_event
            /\ Len(event_history') =
                  (IF Len(event_history) = HISTORY_LIMIT THEN HISTORY_LIMIT
                   ELSE Len(event_history) + 1)
            /\ stats'[file_event] = before + 1
            /\ SumOver(stats', DOMAIN stats') = TotalCounted + 1
            /\ event' = NoEvent
            /\ channel' = channel

\* Nothing but that body changes the history or the statistics: resume
\* replays nothing.
OnlyProcessRecords ==
    (event_history' # event_history \/ stats' # stats \/ handled' # handled)
        => (ProcessStep /\ ~is_paused)

====
